---- MODULE Spec2Model ----
(***************************************************************************)
(* mollyguardctl: the guarded actions start, stop, reboot, unlock and      *)
(* clear-luks of src/mollyguardctl.py as a state machine.                  *)
(*                                                                         *)
(* One invocation of main() is a run.  A run is cut at its blocking calls  *)
(* (the hostname prompt, the key file write, each external tool), where    *)
(* the environment chooses the outcome.  The configuration is read once    *)
(* and never changes.  The masked units, the key file and the key slots    *)
(* of the LUKS device outlive a run; the trace, the log and the result     *)
(* belong to one run and are cleared when the next one starts.             *)
(***************************************************************************)
EXTENDS Integers, Sequences, FiniteSets, TLC

VARIABLES CONFIG,   \* the parsed configuration file (CONFIG.read, main)
          masked,   \* units currently masked in systemd
          keyfile,  \* contents of the LUKS key file: {} when it does not exist
          slots,    \* key material enrolled in the key slots of the LUKS device
          pc,       \* per invocation: the position in the code
          args,     \* per invocation: the argparse Namespace
          trace,    \* per invocation: prompts, key file writes and tool calls, in order
          log,      \* per invocation: the records handed to LOGGER
          result,   \* per invocation: the value main returned or the exception that escaped
          runs,     \* invocations started so far
          started   \* history: the units of the last start that succeeded, if any

vars == <<CONFIG, masked, keyfile, slots, pc, args, trace, log, result, runs, started>>

----------------------------------------------------------------------------
(* Bounds of the model.                                                    *)

MaxRuns == 2        \* invocations in a behaviour
MaxRand == 2        \* distinct values os.urandom can return for one length

----------------------------------------------------------------------------
(* Module constants of mollyguardctl.py.                                   *)

DEFAULT_UNITS ==
    {"halt.target", "hibernate.target", "poweroff.target", "reboot.target",
     "shutdown.target", "suspend.target", "suspend-then-hibernate.target"}

DefaultKeysize == 2048

\* socket.gethostname(): the real host identity
gethostname == "molly"

----------------------------------------------------------------------------
(* Optional values: {} is "absent", {v} is "present with value v".         *)

Absent == {}
Some(v) == {v}
Has(o) == o # {}
Val(o) == CHOOSE v \in o : TRUE

----------------------------------------------------------------------------
(* The configuration file.  A value of the file is text: the units are a   *)
(* sequence of words and blanks, the key size a sequence of characters,    *)
(* the hostname switch a word.                                             *)

Blank == " "

UnitsRaw ==
    { <<>>,
      <<"reboot.target">>,
      <<"reboot.target", Blank, "poweroff.target">> }

HostnameRaw == {"yes", "no", "maybe"}

KeysizeRaw == { <<"2">>, <<"0">>, <<"-", "1">>, <<"x">> }

LuksSections ==
    [device  : {Absent, Some("/dev/sda2")},
     keyfile : {Absent, Some("/run/luks.key")},
     keysize : {Absent} \cup {Some(k) : k \in KeysizeRaw}]

Configs ==
    [units    : {Absent} \cup {Some(u) : u \in UnitsRaw},
     hostname : {Absent} \cup {Some(h) : h \in HostnameRaw},
     luks     : {Absent} \cup {Some(l) : l \in LuksSections}]

----------------------------------------------------------------------------
(* get_units: the configured words, or the built-in set.  str.split drops  *)
(* the blanks; the order of the units is of no concern to systemctl.       *)

Split(raw) == SelectSeq(raw, LAMBDA w : w # Blank)

Range(seq) == {seq[i] : i \in DOMAIN seq}

\* a get_units that falls back to the built-in set for an empty list too
get_units_nonempty(cfg) ==
    IF Has(cfg.units) /\ Range(Split(Val(cfg.units))) # {}
    THEN Range(Split(Val(cfg.units))) ELSE DEFAULT_UNITS

get_units(cfg) ==
    IF Has(cfg.units) THEN Range(Split(Val(cfg.units))) ELSE DEFAULT_UNITS

----------------------------------------------------------------------------
(* int(text) of configparser's getint: an optional sign and at least one   *)
(* digit; anything else is a ValueError (Absent here).                     *)

Digits == {"0", "1", "2", "3", "4", "5", "6", "7", "8", "9"}

DigitVal(c) ==
    CASE c = "0" -> 0 [] c = "1" -> 1 [] c = "2" -> 2 [] c = "3" -> 3
      [] c = "4" -> 4 [] c = "5" -> 5 [] c = "6" -> 6 [] c = "7" -> 7
      [] c = "8" -> 8 [] c = "9" -> 9

RECURSIVE DigitsVal(_)
DigitsVal(ds) ==
    IF ds = <<>> THEN 0
    ELSE 10 * DigitsVal(SubSeq(ds, 1, Len(ds) - 1)) + DigitVal(ds[Len(ds)])

ParseInt(text) ==
    LET signed == Len(text) > 0 /\ text[1] \in {"-", "+"}
        ds     == IF signed THEN Tail(text) ELSE text
    IN  IF ds = <<>> \/ \E i \in DOMAIN ds : ds[i] \notin Digits
        THEN Absent
        ELSE Some(IF signed /\ text[1] = "-" THEN 0 - DigitsVal(ds) ELSE DigitsVal(ds))

----------------------------------------------------------------------------
(* get_luks_settings: the generator is consumed whole by both of its       *)
(* callers (a three-name unpacking, and "device, keyfile, *_"), so the     *)
(* first of its raise statements that applies decides the outcome.         *)

NoSettings(exc, msg) ==
    [raised |-> exc, msg |-> msg, device |-> "", keyfile |-> "", keysize |-> 0]

get_luks_settings(cfg) ==
    IF ~Has(cfg.luks) THEN NoSettings("LUKSNotConfigured", "")
    ELSE LET luks == Val(cfg.luks)
             size == IF Has(luks.keysize) THEN ParseInt(Val(luks.keysize))
                     ELSE Some(DefaultKeysize)
         IN  IF ~Has(luks.device)
                 THEN NoSettings("ConfigurationError", "Missing LUKS device.")
             ELSE IF ~Has(luks.keyfile)
                 THEN NoSettings("ConfigurationError", "Missing LUKS key file.")
             ELSE IF ~Has(size)
                 THEN NoSettings("ConfigurationError", "Key size is not an integer.")
             ELSE [raised |-> "", msg |-> "", device |-> Val(luks.device),
                   keyfile |-> Val(luks.keyfile), keysize |-> Val(size)]

----------------------------------------------------------------------------
(* CONFIG.getboolean('MollyGuard', 'hostname', fallback=True): Absent is   *)
(* the ValueError of a word that is no boolean.                            *)

BooleanTrue == {"1", "yes", "true", "on"}
BooleanFalse == {"0", "no", "false", "off"}

getboolean_hostname(cfg) ==
    IF ~Has(cfg.hostname) THEN Some(TRUE)
    ELSE IF Val(cfg.hostname) \in BooleanTrue THEN Some(TRUE)
    ELSE IF Val(cfg.hostname) \in BooleanFalse THEN Some(FALSE)
    ELSE Absent

----------------------------------------------------------------------------
(* challenge_hostname: what the operator gives to input() is a line, the   *)
(* end of the input stream, or an interrupt.                               *)

Lines == {"molly", "Molly", ""}

Inputs ==
    [kind : {"line"}, text : Lines] \cup [kind : {"eof", "interrupt"}, text : {""}]

\* a challenge that compares without regard to case
Lower(text) == IF text = "Molly" THEN "molly" ELSE text

challenge_hostname_caseless(inp) ==
    IF inp.kind \in {"eof", "interrupt"} THEN "UserAbort"
    ELSE IF Lower(inp.text) = Lower(gethostname) THEN "True"
    ELSE "False"

challenge_hostname(inp) ==
    IF inp.kind \in {"eof", "interrupt"} THEN "UserAbort"
    ELSE IF inp.text = gethostname THEN "True"
    ELSE "False"

----------------------------------------------------------------------------
(* os.urandom(n): n random bytes.  A byte string is known by its length    *)
(* and, among the strings of that length, by a value; the empty string is  *)
(* the only one of length 0.                                               *)

EmptyBytes == [len |-> 0, val |-> 0]

urandom(n) ==
    IF n = 0 THEN {EmptyBytes} ELSE {[len |-> n, val |-> v] : v \in 1..MaxRand}

----------------------------------------------------------------------------
(* get_args: only the reboot sub-parser defines force_luks; without a      *)
(* sub-command the action is None.                                         *)

Namespaces ==
    [action : {"start", "stop", "unlock", "clear-luks", "None"}]
    \cup [action : {"reboot"}, force_luks : BOOLEAN]

----------------------------------------------------------------------------
(* What a run leaves behind for the reader of the model.                   *)

Event(step, units, key, text, out) ==
    [step |-> step, units |-> units, key |-> key, text |-> text, out |-> out]

LogRec(level, msg, arg) == [level |-> level, msg |-> msg, arg |-> arg]

Running == [state |-> "running", code |-> 0, exc |-> ""]
Returned(code) == [state |-> "returned", code |-> code, exc |-> ""]
Raised(exc) == [state |-> "raised", code |-> 0, exc |-> exc]

Procs == DOMAIN pc

Goto(p, label) ==
    /\ pc' = [pc EXCEPT ![p] = label]
    /\ UNCHANGED result

\* main returns code: the run is over
Return(p, code) ==
    /\ pc' = [pc EXCEPT ![p] = "done"]
    /\ result' = [result EXCEPT ![p] = Returned(code)]

\* an exception no handler catches leaves main: the run is over
Escape(p, exc) ==
    /\ pc' = [pc EXCEPT ![p] = "done"]
    /\ result' = [result EXCEPT ![p] = Raised(exc)]

Traced(p, ev) == trace' = [trace EXCEPT ![p] = Append(@, ev)]

Logged(p, recs) == log' = [log EXCEPT ![p] = @ \o recs]

----------------------------------------------------------------------------
(* subprocess.check_call: the tool exits 0, exits nonzero (raised as       *)
(* CalledProcessError), or the operator interrupts the wait.               *)

Exits == {"zero", "nonzero", "interrupt"}

\* systemctl refuses a mask or unmask that names no unit
SystemctlExits(action, units) ==
    IF action \in {"mask", "unmask"} /\ units = {} THEN Exits \ {"zero"} ELSE Exits

\* What systemctl may leave masked: all of the units are handled when it
\* exits 0; which of them were handled before a failure is not known.
SystemctlEffects(action, units, out) ==
    LET handled == IF out = "zero" THEN {units} ELSE SUBSET units
    IN  IF action = "mask" THEN {masked \cup S : S \in handled}
        ELSE IF action = "unmask" THEN {masked \ S : S \in handled}
        ELSE {masked}

\* cryptsetup reads the key file when it runs.  luksAddKey enrolls its
\* contents; luksRemoveKey removes the slot they open and fails when there
\* is none or when the file cannot be read.
CryptsetupExits(action) ==
    IF keyfile = Absent \/ (action = "luksRemoveKey" /\ ~(keyfile \subseteq slots))
    THEN Exits \ {"zero"} ELSE Exits

CryptsetupEffects(action, out) ==
    IF action = "luksAddKey"
    THEN (IF out = "zero" THEN {slots \cup keyfile}
          ELSE IF out = "interrupt" THEN {slots, slots \cup keyfile}
          ELSE {slots})
    ELSE (IF out = "zero" THEN {slots \ keyfile}
          ELSE IF out = "interrupt" THEN {slots, slots \ keyfile}
          ELSE {slots})

----------------------------------------------------------------------------
(* main: a new invocation.  start, stop and clear-luks are dispatched      *)
(* directly; everything else goes to mollyguard_functions, whose first     *)
(* statement reads args.force_luks.                                        *)

main_dispatch(a) ==
    IF a.action = "start" THEN "start"
    ELSE IF a.action = "stop" THEN "stop"
    ELSE IF a.action = "clear-luks" THEN "clear_luks"
    ELSE IF "force_luks" \in DOMAIN a THEN "mollyguard"
    ELSE "AttributeError"

Main(p) ==
    /\ pc[p] \in {"idle", "done"}
    /\ runs < MaxRuns
    /\ runs' = runs + 1
    /\ \E a \in Namespaces :
          /\ args' = [args EXCEPT ![p] = a]
          /\ IF main_dispatch(a) = "AttributeError"
             THEN Escape(p, "AttributeError")
             ELSE /\ pc' = [pc EXCEPT ![p] = main_dispatch(a)]
                  /\ result' = [result EXCEPT ![p] = Running]
    /\ trace' = [trace EXCEPT ![p] = <<>>]
    /\ log' = [log EXCEPT ![p] = <<>>]
    /\ UNCHANGED <<CONFIG, masked, keyfile, slots, started>>

----------------------------------------------------------------------------
(* start and stop: one systemctl call on the configured units.             *)

start_except == <<LogRec("error", "Could not mask some units.", ""),
                  LogRec("debug", "%s", "CalledProcessError")>>

stop_except == <<LogRec("warning", "Could not unmask some units.", ""),
                 LogRec("debug", "%s", "CalledProcessError")>>

\* "try: systemctl(action, *units) except CalledProcessError: log; return
\* False" followed by "return True", and main's "0 if ... else 1"
GuardedSystemctl(p, action, units, onError) ==
    \E out \in SystemctlExits(action, units) :
       /\ masked' \in SystemctlEffects(action, units, out)
       /\ Traced(p, Event(action, units, Absent, "", out))
       /\ IF out = "zero" THEN Return(p, 0) /\ UNCHANGED log
          ELSE IF out = "nonzero" THEN Return(p, 1) /\ Logged(p, onError)
          ELSE Escape(p, "KeyboardInterrupt") /\ UNCHANGED log

Start(p) ==
    /\ pc[p] = "start"
    /\ GuardedSystemctl(p, "mask", get_units(CONFIG), start_except)
    /\ started' = IF result'[p] = Returned(0) THEN Some(get_units(CONFIG)) ELSE started
    /\ UNCHANGED <<CONFIG, keyfile, slots, args, runs>>

\* a stop that unmasks the reboot targets only, whatever is configured
Stop_reboot_targets(p) ==
    /\ pc[p] = "stop"
    /\ GuardedSystemctl(p, "unmask", {"reboot.target", "shutdown.target"}, stop_except)
    /\ UNCHANGED <<CONFIG, keyfile, slots, args, runs, started>>

Stop(p) ==
    /\ pc[p] = "stop"
    /\ GuardedSystemctl(p, "unmask", get_units(CONFIG), stop_except)
    /\ UNCHANGED <<CONFIG, keyfile, slots, args, runs, started>>

----------------------------------------------------------------------------
(* clear_luks: get_luks_settings is called before the try statement, so    *)
(* the handlers of that statement catch nothing it raises.                 *)

clear_luks_catches(exc) == FALSE

clear_luks_except(settings) ==
    IF settings.raised = "LUKSNotConfigured"
    THEN <<LogRec("warning", "LUKS is not configured.", "")>>
    ELSE <<LogRec("error", "%s", settings.msg)>>

ClearLuks(p) ==
    /\ pc[p] = "clear_luks"
    /\ LET settings == get_luks_settings(CONFIG)
       IN  IF settings.raised = ""
           THEN \E out \in CryptsetupExits("luksRemoveKey") :
                   /\ slots' \in CryptsetupEffects("luksRemoveKey", out)
                   /\ Traced(p, Event("luksRemoveKey", {}, keyfile, settings.device, out))
                   /\ IF out = "zero" THEN Return(p, 0) /\ UNCHANGED log
                      ELSE IF out = "nonzero"
                      THEN /\ Return(p, 1)
                           /\ Logged(p, <<LogRec("error", "Could not clear LUKS key from %s.",
                                                 settings.device)>>)
                      ELSE Escape(p, "KeyboardInterrupt") /\ UNCHANGED log
           ELSE IF clear_luks_catches(settings.raised)
           THEN /\ Return(p, 1)
                /\ Logged(p, clear_luks_except(settings))
                /\ UNCHANGED <<slots, trace>>
           ELSE /\ Escape(p, settings.raised)
                /\ UNCHANGED <<slots, trace, log>>
    /\ UNCHANGED <<CONFIG, masked, keyfile, args, runs, started>>

----------------------------------------------------------------------------
(* mollyguard_functions: the handlers around mollyguard(), and what        *)
(* follows a mollyguard() that returned.                                   *)

\* handlers that report UserAbort like a failed challenge
mollyguard_functions_except_one(exc, reason) ==
    IF exc = "ChallengeFailed"
    THEN [code |-> 1, log |-> <<LogRec("error", "Challenge %s failed.", reason)>>]
    ELSE [code |-> 1, log |-> <<LogRec("error", "Aborted by user.", "")>>]

mollyguard_functions_except(exc, reason) ==
    IF exc = "ChallengeFailed"
    THEN [code |-> 1, log |-> <<LogRec("error", "Challenge %s failed.", reason)>>]
    ELSE [code |-> 2, log |-> <<LogRec("error", "Aborted by user.", "")>>]

\* mollyguard() raised exc: logged (after what was logged before the
\* raise) and turned into the exit code
Guarded(p, exc, reason, before) ==
    LET handler == mollyguard_functions_except(exc, reason)
    IN  /\ Return(p, handler.code)
        /\ Logged(p, before \o handler.log)

\* mollyguard() returned: "unlock" calls unlock(), "reboot" calls reboot(),
\* which calls unlock() first; any other action returns 1
mollyguard_functions_action(a) ==
    IF a.action \in {"unlock", "reboot"} THEN "unlock" ELSE "return 1"

\* a mollyguard_functions that issues the reboot command without unlock()
Passed_without_unlock(p) ==
    IF mollyguard_functions_action(args[p]) = "unlock"
    THEN Goto(p, "reboot")
    ELSE Return(p, 1)

Passed(p) ==
    IF mollyguard_functions_action(args[p]) = "unlock"
    THEN Goto(p, "unlock")
    ELSE Return(p, 1)

----------------------------------------------------------------------------
(* mollyguard, first half: the hostname challenge.                         *)

mollyguard_hostname(cfg, inp) ==
    LET ch_hostname == getboolean_hostname(cfg)
    IN  IF ~Has(ch_hostname) THEN "ValueError"
        ELSE IF ~Val(ch_hostname) THEN "skip"
        ELSE challenge_hostname(inp)

\* a mollyguard that opens the key file before it asks for the host name
Mollyguard_keyfile_first(p) ==
    /\ pc[p] = "mollyguard"
    /\ \E inp \in Inputs :
          LET answer == mollyguard_hostname(CONFIG, inp)
              asked  == Event("prompt", {}, Absent, inp.text, inp.kind)
          IN  IF answer = "ValueError"
              THEN Escape(p, "ValueError") /\ UNCHANGED <<trace, log>>
              ELSE IF answer = "skip"
              THEN Goto(p, "prepare_luks") /\ UNCHANGED <<trace, log>>
              ELSE IF answer = "True"
              THEN Goto(p, "prepare_luks") /\ Traced(p, asked) /\ UNCHANGED log
              ELSE IF answer = "False"
              THEN /\ Guarded(p, "ChallengeFailed", "hostname",
                              <<LogRec("error", "Wrong host name. It actually is: \"%s\".",
                                       gethostname)>>)
                   /\ Traced(p, asked)
              ELSE Guarded(p, "UserAbort", "", <<>>) /\ Traced(p, asked)
    /\ keyfile' = Some(EmptyBytes)
    /\ UNCHANGED <<CONFIG, masked, slots, args, runs, started>>

Mollyguard(p) ==
    /\ pc[p] = "mollyguard"
    /\ \E inp \in Inputs :
          LET answer == mollyguard_hostname(CONFIG, inp)
              asked  == Event("prompt", {}, Absent, inp.text, inp.kind)
          IN  IF answer = "ValueError"
              THEN Escape(p, "ValueError") /\ UNCHANGED <<trace, log>>
              ELSE IF answer = "skip"
              THEN Goto(p, "prepare_luks") /\ UNCHANGED <<trace, log>>
              ELSE IF answer = "True"
              THEN Goto(p, "prepare_luks") /\ Traced(p, asked) /\ UNCHANGED log
              ELSE IF answer = "False"
              THEN /\ Guarded(p, "ChallengeFailed", "hostname",
                              <<LogRec("error", "Wrong host name. It actually is: \"%s\".",
                                       gethostname)>>)
                   /\ Traced(p, asked)
              ELSE Guarded(p, "UserAbort", "", <<>>) /\ Traced(p, asked)
    /\ UNCHANGED <<CONFIG, masked, keyfile, slots, args, runs, started>>

----------------------------------------------------------------------------
(* mollyguard, second half: prepare_luks.  What mollyguard makes of its    *)
(* outcome: "" is "go on", anything else the reason of a ChallengeFailed.  *)

\* a mollyguard that never looks at force_luks
mollyguard_luks_unforced(prepared, force_luks) ==
    IF prepared = "False" THEN "LUKS" ELSE ""

\* a mollyguard that goes on when prepare_luks returned False
mollyguard_luks_tolerant(prepared, force_luks) ==
    IF prepared = "LUKSNotConfigured" /\ force_luks THEN "Enforced LUKS" ELSE ""

\* a mollyguard that requires LUKS whatever force_luks says
mollyguard_luks_strict(prepared, force_luks) ==
    IF prepared = "LUKSNotConfigured" THEN "Enforced LUKS"
    ELSE IF prepared = "False" THEN "LUKS"
    ELSE ""

mollyguard_luks(prepared, force_luks) ==
    IF prepared = "LUKSNotConfigured"
    THEN (IF force_luks THEN "Enforced LUKS" ELSE "")
    ELSE IF prepared = "False" THEN "LUKS"
    ELSE ""

\* prepare_luks up to the key file: the settings, then the open of
\* "with Path(keyfile).open('wb') as key", which leaves the file empty.
PrepareLuks(p) ==
    /\ pc[p] = "prepare_luks"
    /\ LET settings == get_luks_settings(CONFIG)
           force    == args[p].force_luks
       IN  IF settings.raised = "LUKSNotConfigured"
           THEN /\ IF mollyguard_luks("LUKSNotConfigured", force) = ""
                   THEN Passed(p) /\ UNCHANGED log
                   ELSE Guarded(p, "ChallengeFailed",
                                mollyguard_luks("LUKSNotConfigured", force), <<>>)
                /\ UNCHANGED <<keyfile, trace>>
           ELSE IF settings.raised = "ConfigurationError"
           THEN /\ Guarded(p, "ChallengeFailed", mollyguard_luks("False", force),
                           <<LogRec("error", "%s", settings.msg)>>)
                /\ UNCHANGED <<keyfile, trace>>
           ELSE \/ /\ keyfile' = Some(EmptyBytes)
                   /\ Goto(p, "write_key")
                   /\ UNCHANGED <<trace, log>>
                \/ /\ Traced(p, Event("keygen", {}, keyfile, settings.keyfile, "interrupt"))
                   /\ Escape(p, "KeyboardInterrupt")
                   /\ UNCHANGED <<keyfile, log>>
    /\ UNCHANGED <<CONFIG, masked, slots, args, runs, started>>

\* "key.write(urandom(keysize))" and the close of the file, which is when
\* the bytes reach it.  urandom raises ValueError for a negative size; an
\* interrupt before the write leaves the file as it is.
\* a write that is still in the buffer when the key file is read
WriteKey_unflushed(p) ==
    /\ pc[p] = "write_key"
    /\ LET settings == get_luks_settings(CONFIG)
       IN  \E key \in urandom(settings.keysize) :
              /\ Traced(p, Event("keygen", {}, Some(key), settings.keyfile, "written"))
              /\ Goto(p, "luksAddKey")
    /\ UNCHANGED <<CONFIG, masked, keyfile, slots, args, log, runs, started>>

WriteKey(p) ==
    /\ pc[p] = "write_key"
    /\ LET settings == get_luks_settings(CONFIG)
       IN  IF settings.keysize < 0
           THEN /\ Traced(p, Event("keygen", {}, keyfile, settings.keyfile, "ValueError"))
                /\ Escape(p, "ValueError")
                /\ UNCHANGED <<keyfile, log>>
           ELSE \/ \E key \in urandom(settings.keysize) :
                      /\ keyfile' = Some(key)
                      /\ Traced(p, Event("keygen", {}, Some(key), settings.keyfile, "written"))
                      /\ Goto(p, "luksAddKey")
                      /\ UNCHANGED log
                \/ /\ Traced(p, Event("keygen", {}, keyfile, settings.keyfile, "interrupt"))
                   /\ Escape(p, "KeyboardInterrupt")
                   /\ UNCHANGED <<keyfile, log>>
    /\ UNCHANGED <<CONFIG, masked, slots, args, runs, started>>

\* prepare_luks from the key file on: cryptsetup luksAddKey and its handlers
LuksAddKey(p) ==
    /\ pc[p] = "luksAddKey"
    /\ LET settings == get_luks_settings(CONFIG)
           force    == args[p].force_luks
       IN  \E out \in CryptsetupExits("luksAddKey") :
              /\ slots' \in CryptsetupEffects("luksAddKey", out)
              /\ Traced(p, Event("luksAddKey", {}, keyfile, settings.device, out))
              /\ IF out = "zero"
                 THEN (IF mollyguard_luks("True", force) = ""
                       THEN Passed(p) /\ UNCHANGED log
                       ELSE Guarded(p, "ChallengeFailed", mollyguard_luks("True", force), <<>>))
                 ELSE IF out = "nonzero"
                 THEN Guarded(p, "ChallengeFailed", mollyguard_luks("False", force),
                              <<LogRec("error", "Could not add auto-decrypt key to LUKS volume.", "")>>)
                 ELSE Guarded(p, "UserAbort", "", <<>>)
    /\ UNCHANGED <<CONFIG, masked, keyfile, args, runs, started>>

----------------------------------------------------------------------------
(* unlock and reboot.                                                      *)

UnlockTargets == {"reboot.target", "shutdown.target"}

unlock_except == <<LogRec("warning", "Could not unmask necessary targets.", ""),
                   LogRec("debug", "%s", "CalledProcessError")>>

reboot_except == <<LogRec("warning", "Could not reboot.", ""),
                   LogRec("debug", "%s", "CalledProcessError")>>

\* unlock() returned True: the unlock action is over, reboot() goes on
unlocked(a) == IF a.action = "reboot" THEN "reboot" ELSE "return 0"

Unlock(p) ==
    /\ pc[p] = "unlock"
    /\ \E out \in SystemctlExits("unmask", UnlockTargets) :
          /\ masked' \in SystemctlEffects("unmask", UnlockTargets, out)
          /\ Traced(p, Event("unmask", UnlockTargets, Absent, "", out))
          /\ IF out = "zero"
             THEN /\ IF unlocked(args[p]) = "reboot" THEN Goto(p, "reboot") ELSE Return(p, 0)
                  /\ UNCHANGED log
             ELSE IF out = "nonzero" THEN Return(p, 1) /\ Logged(p, unlock_except)
             ELSE Escape(p, "KeyboardInterrupt") /\ UNCHANGED log
    /\ UNCHANGED <<CONFIG, keyfile, slots, args, runs, started>>

\* a reboot that masks the reboot targets again when the command fails
Reboot_rollback(p) ==
    /\ pc[p] = "reboot"
    /\ \E out \in SystemctlExits("reboot", {}) :
          /\ masked' = IF out = "zero" THEN masked ELSE masked \cup UnlockTargets
          /\ Traced(p, Event("reboot", {}, Absent, "", out))
          /\ IF out = "zero" THEN Return(p, 0) /\ UNCHANGED log
             ELSE IF out = "nonzero" THEN Return(p, 1) /\ Logged(p, reboot_except)
             ELSE Escape(p, "KeyboardInterrupt") /\ UNCHANGED log
    /\ UNCHANGED <<CONFIG, keyfile, slots, args, runs, started>>

Reboot(p) ==
    /\ pc[p] = "reboot"
    /\ GuardedSystemctl(p, "reboot", {}, reboot_except)
    /\ UNCHANGED <<CONFIG, keyfile, slots, args, runs, started>>

----------------------------------------------------------------------------
(* The program: one invocation at a time, on any configuration, with       *)
(* nothing masked, no key file and no key enrolled to begin with.          *)

Init ==
    /\ CONFIG \in Configs
    /\ masked = {}
    /\ keyfile = Absent
    /\ slots = {}
    /\ pc = [p \in {1} |-> "idle"]
    /\ args = [p \in {1} |-> [action |-> "None"]]
    /\ trace = [p \in {1} |-> <<>>]
    /\ log = [p \in {1} |-> <<>>]
    /\ result = [p \in {1} |-> Running]
    /\ runs = 0
    /\ started = Absent

Next ==
    \/ \E p \in Procs : Main(p)
    \/ \E p \in Procs : Start(p)
    \/ \E p \in Procs : Stop(p)
    \/ \E p \in Procs : ClearLuks(p)
    \/ \E p \in Procs : Mollyguard(p)
    \/ \E p \in Procs : PrepareLuks(p)
    \/ \E p \in Procs : WriteKey(p)
    \/ \E p \in Procs : LuksAddKey(p)
    \/ \E p \in Procs : Unlock(p)
    \/ \E p \in Procs : Reboot(p)

Spec == Init /\ [][Next]_vars

----------------------------------------------------------------------------
(* Concurrent invocations.  Nothing in main takes a lock, so two           *)
(* invocations of the program can run side by side on one configuration    *)
(* file, one key file and one device; their steps interleave at the        *)
(* granularity of the actions above.  An invocation runs alone or next to  *)
(* a second one; the configurations are the ones whose LUKS settings are   *)
(* accepted.                                                               *)

Invocations == {{1}, {1, 2}}

RaceConfigs ==
    [units    : {Some(<<"reboot.target">>)},
     hostname : {Some("no")},
     luks     : {Some([device  |-> Some("/dev/sda2"),
                       keyfile |-> Some("/run/luks.key"),
                       keysize |-> k]) : k \in {Absent, Some(<<"2">>)}}]

InitRace ==
    /\ CONFIG \in RaceConfigs
    /\ masked = {}
    /\ keyfile = Absent
    /\ slots = {}
    /\ \E ps \in Invocations :
          /\ pc = [p \in ps |-> "idle"]
          /\ args = [p \in ps |-> [action |-> "None"]]
          /\ trace = [p \in ps |-> <<>>]
          /\ log = [p \in ps |-> <<>>]
          /\ result = [p \in ps |-> Running]
    /\ runs = 0
    /\ started = Absent

SpecRace == InitRace /\ [][Next]_vars

----------------------------------------------------------------------------
(* Vocabulary of the properties.                                           *)

Done(p) == pc[p] = "done"

IsReboot(p) == args[p].action = "reboot"

Forced(p) == IsReboot(p) /\ args[p].force_luks

Unforced(p) == IsReboot(p) /\ ~args[p].force_luks

NotConfigured == get_luks_settings(CONFIG).raised = "LUKSNotConfigured"

Malformed == get_luks_settings(CONFIG).raised = "ConfigurationError"

Configured == get_luks_settings(CONFIG).raised = ""

\* the steps of a run with an effect outside the process
Invoked(p, step) == \E i \in DOMAIN trace[p] : trace[p][i].step = step

Exited(p, step, out) ==
    \E i \in DOMAIN trace[p] : trace[p][i].step = step /\ trace[p][i].out = out

UnitCommands == {"mask", "unmask", "reboot"}

NoUnitCommand(p) == \A i \in DOMAIN trace[p] : trace[p][i].step \notin UnitCommands

NoKeyWritten(p) == ~Invoked(p, "keygen")

HasLog(p, level, msg, arg) ==
    \E i \in DOMAIN log[p] : log[p][i] = LogRec(level, msg, arg)

FailedWith(p, reason) ==
    /\ Done(p)
    /\ result[p] = Returned(1)
    /\ HasLog(p, "error", "Challenge %s failed.", reason)

\* the operator typed a line that is not the host name
WrongAnswer(p) ==
    \E i \in DOMAIN trace[p] :
       /\ trace[p][i].step = "prompt"
       /\ trace[p][i].out = "line"
       /\ trace[p][i].text # gethostname

RightAnswer(p) ==
    \E i \in DOMAIN trace[p] :
       /\ trace[p][i].step = "prompt"
       /\ trace[p][i].out = "line"
       /\ trace[p][i].text = gethostname

PromptAborted(p) ==
    \E i \in DOMAIN trace[p] :
       trace[p][i].step = "prompt" /\ trace[p][i].out \in {"eof", "interrupt"}

ChallengeOff == getboolean_hostname(CONFIG) = Some(FALSE)

\* the run is past the LUKS step of mollyguard(): the challenge was switched
\* off or passed, and prepare_luks has acted on the settings
PastLuksSettings(p) ==
    /\ "force_luks" \in DOMAIN args[p]
    /\ pc[p] \notin {"idle", "mollyguard", "prepare_luks"}
    /\ ChallengeOff \/ RightAnswer(p)

----------------------------------------------------------------------------
(* C1.  The claim as written: every Reboot run with forceLuks set and no   *)
(* LUKS section ends Failed with the reason "Enforced LUKS", having        *)
(* invoked no mask, unmask or reboot command and written no key file.      *)
(* The reason is a different one when the hostname challenge, which comes  *)
(* first, is failed or aborted.                                            *)

C1_AlwaysEnforcedLuks ==
    \A p \in Procs :
       (Done(p) /\ Forced(p) /\ NotConfigured)
          => /\ FailedWith(p, "Enforced LUKS")
             /\ NoUnitCommand(p)
             /\ NoKeyWritten(p)

(* C1, amended.  A Reboot run with forceLuks set and no LUKS section       *)
(* never invokes a mask, unmask or reboot command and never writes a key   *)
(* file; once its hostname challenge is switched off or passed, it ends    *)
(* Failed with the reason "Enforced LUKS" (exit code 1).                   *)

C1_ForcedLuksShortCircuit ==
    \A p \in Procs :
       (Forced(p) /\ NotConfigured)
          => /\ NoUnitCommand(p)
             /\ NoKeyWritten(p)
             /\ ~Invoked(p, "luksAddKey")
             /\ PastLuksSettings(p) => FailedWith(p, "Enforced LUKS")

C1_Witness ==
    \E p \in Procs :
       /\ Forced(p) /\ NotConfigured
       /\ RightAnswer(p)
       /\ FailedWith(p, "Enforced LUKS")

----------------------------------------------------------------------------
(* C2.  Scenario C: in a Reboot run in which the operator answers the      *)
(* hostname prompt with a line that is not the host name, the run is over  *)
(* and Failed (exit code 1, reason "hostname"), and no unmask and no       *)
(* reboot command was issued.                                              *)

C2_WrongHostnameStopsReboot ==
    \A p \in Procs :
       (IsReboot(p) /\ WrongAnswer(p))
          => /\ FailedWith(p, "hostname")
             /\ ~Invoked(p, "unmask")
             /\ ~Invoked(p, "reboot")
             /\ Len(trace[p]) = 1

C2_Witness ==
    \E p \in Procs :
       /\ IsReboot(p) /\ WrongAnswer(p) /\ Done(p)
       /\ \E i \in DOMAIN trace[p] : trace[p][i].text = "Molly"

----------------------------------------------------------------------------
(* C3.  Unconfigured clear: a ClearLuks run without a LUKS section returns *)
(* failure, exit code 1, and never invokes cryptsetup luksRemoveKey.       *)

C3_UnconfiguredClearReturnsFailure ==
    \A p \in Procs :
       (Done(p) /\ args[p].action = "clear-luks" /\ NotConfigured)
          => /\ result[p] = Returned(1)
             /\ ~Invoked(p, "luksRemoveKey")

----------------------------------------------------------------------------
(* A LUKS step that failed for another reason than a missing LUKS section: *)
(* prepare_luks met settings for which get_luks_settings raises            *)
(* ConfigurationError, or cryptsetup luksAddKey exited nonzero.            *)

LuksStepFailed(p) ==
    \/ PastLuksSettings(p) /\ Malformed
    \/ Exited(p, "luksAddKey", "nonzero")

(* C4.  The claim as written: in a Reboot run a LUKS-step failure other    *)
(* than NotConfigured does not abort the reboot, the run still unmasks the *)
(* reboot targets (and, that done, issues the reboot command).             *)

C4_LuksFailureDoesNotAbortReboot ==
    \A p \in Procs :
       (Done(p) /\ IsReboot(p) /\ LuksStepFailed(p))
          => /\ Invoked(p, "unmask")
             /\ Exited(p, "unmask", "zero") => Invoked(p, "reboot")

(* C4, amended.  In a Reboot run a LUKS-step failure other than            *)
(* NotConfigured (settings for which get_luks_settings raises              *)
(* ConfigurationError, or a nonzero exit of the key-registration tool)     *)
(* aborts the reboot: the run ends Failed with the reason "LUKS" (exit     *)
(* code 1) and issues neither the unmask nor the reboot command.           *)

C4_LuksFailureAbortsReboot ==
    \A p \in Procs :
       (IsReboot(p) /\ LuksStepFailed(p))
          => /\ FailedWith(p, "LUKS")
             /\ NoUnitCommand(p)

C4_Witness ==
    \E p \in Procs :
       /\ IsReboot(p)
       /\ Exited(p, "luksAddKey", "nonzero")
       /\ Done(p)

----------------------------------------------------------------------------
(* C5.  The claim as written: a Reboot run without a LUKS section and      *)
(* without forceLuks that has come past the LUKS step has logged a warning *)
(* about it, goes on to the unmask and the reboot command, and ends Done   *)
(* when both succeed.                                                      *)

BothSucceeded(p) == Exited(p, "unmask", "zero") /\ Exited(p, "reboot", "zero")

C5_ToleratedWithWarning ==
    \A p \in Procs :
       (Unforced(p) /\ NotConfigured /\ PastLuksSettings(p))
          => /\ \E i \in DOMAIN log[p] : log[p][i].level = "warning"
             /\ Done(p) => Invoked(p, "unmask")
             /\ (Done(p) /\ BothSucceeded(p)) => result[p] = Returned(0)

(* C5, amended.  In a Reboot run without a LUKS section and without        *)
(* forceLuks the missing LUKS configuration is tolerated without any log   *)
(* record: once the hostname challenge is switched off or passed, the run  *)
(* goes on, with nothing logged, no key file written and no cryptsetup     *)
(* command, to unmask the reboot targets and, that done, to issue the      *)
(* reboot command; it ends Done (exit code 0) when both commands succeed,  *)
(* and the only records it ever logs are those of a failed unmask or       *)
(* reboot command.                                                         *)

C5_ToleratedSilently ==
    \A p \in Procs :
       (Unforced(p) /\ NotConfigured /\ PastLuksSettings(p))
          => /\ NoKeyWritten(p) /\ ~Invoked(p, "luksAddKey")
             /\ pc[p] \in {"unlock", "reboot", "done"}
             /\ pc[p] = "unlock" => (log[p] = <<>> /\ NoUnitCommand(p))
             /\ pc[p] = "reboot" => (log[p] = <<>> /\ Exited(p, "unmask", "zero"))
             /\ Done(p) => Invoked(p, "unmask")
             /\ (Done(p) /\ Exited(p, "unmask", "zero")) => Invoked(p, "reboot")
             /\ (Done(p) /\ BothSucceeded(p)) => (result[p] = Returned(0) /\ log[p] = <<>>)
             /\ log[p] \in {<<>>, unlock_except, reboot_except}

C5_Witness ==
    \E p \in Procs :
       /\ Unforced(p) /\ NotConfigured /\ PastLuksSettings(p)
       /\ Done(p) /\ BothSucceeded(p)
       /\ result[p] = Returned(0)

----------------------------------------------------------------------------
(* C6.  Sequencing: in every run the steps come in the order hostname      *)
(* prompt, key generation, key registration (or removal), unit mask or     *)
(* unmask, reboot command, none of them twice; a key is registered only    *)
(* right after it was written, and the reboot command is issued only       *)
(* right after the unmask of the reboot targets exited 0.  A step that     *)
(* fails is the last step of its run, and that run is over and Failed      *)
(* (it ended otherwise than by returning 0); so is a run whose LUKS        *)
(* settings are refused, the one tolerated refusal being a missing LUKS    *)
(* section without forceLuks.                                              *)

StepRank(step) ==
    CASE step = "prompt" -> 1
      [] step = "keygen" -> 2
      [] step \in {"luksAddKey", "luksRemoveKey"} -> 3
      [] step \in {"mask", "unmask"} -> 4
      [] step = "reboot" -> 5

StepFailed(ev) ==
    CASE ev.step = "prompt" -> ~(ev.out = "line" /\ ev.text = gethostname)
      [] ev.step = "keygen" -> ev.out # "written"
      [] OTHER -> ev.out # "zero"

Failed(p) == Done(p) /\ result[p] # Returned(0)

C6_Sequencing ==
    \A p \in Procs :
       /\ \A i, j \in DOMAIN trace[p] :
             i < j => StepRank(trace[p][i].step) < StepRank(trace[p][j].step)
       /\ \A i \in DOMAIN trace[p] :
             /\ StepFailed(trace[p][i]) => (i = Len(trace[p]) /\ Failed(p))
             /\ trace[p][i].step = "luksAddKey"
                   => /\ i > 1
                      /\ trace[p][i - 1].step = "keygen"
                      /\ trace[p][i - 1].out = "written"
             /\ trace[p][i].step = "reboot"
                   => /\ i > 1
                      /\ trace[p][i - 1] = Event("unmask", UnlockTargets, Absent, "", "zero")
       /\ (PastLuksSettings(p) /\ (Malformed \/ (NotConfigured /\ Forced(p))))
             => (Failed(p) /\ NoUnitCommand(p) /\ NoKeyWritten(p))

C6_Witness ==
    \E p \in Procs :
       /\ Len(trace[p]) = 5
       /\ trace[p][1].step = "prompt"
       /\ trace[p][5].step = "reboot"
       /\ StepFailed(trace[p][5])
       /\ Failed(p)

----------------------------------------------------------------------------
(* C7.  Per-action policy for Unlock: an Unlock run consists of the LUKS   *)
(* provision step and of nothing else.  It never prompts for the hostname  *)
(* and never invokes a mask, unmask or reboot command, and with LUKS       *)
(* settings that are in order it does write the key file.                  *)

IsUnlock(p) == args[p].action = "unlock"

Provisionable ==
    Configured /\ get_luks_settings(CONFIG).keysize >= 0

C7_UnlockIsProvisionOnly ==
    \A p \in Procs :
       (Done(p) /\ IsUnlock(p))
          => /\ ~Invoked(p, "prompt")
             /\ NoUnitCommand(p)
             /\ Provisionable => Invoked(p, "keygen")

----------------------------------------------------------------------------
(* C8.  Scenario B: in an Unlock run with LUKS Configured(device, keyfile, *)
(* keysize) the key file is written with keysize random bytes, then the    *)
(* key registration is invoked, exactly once, on that device with the key  *)
(* just written, and when it exits 0 the run returns exit code 0.          *)

C8_UnlockProvisions ==
    \A p \in Procs :
       (Done(p) /\ IsUnlock(p) /\ Provisionable)
          => LET settings == get_luks_settings(CONFIG)
                 adds     == {i \in DOMAIN trace[p] : trace[p][i].step = "luksAddKey"}
             IN  /\ Invoked(p, "keygen")
                 /\ \A i \in DOMAIN trace[p] :
                       (trace[p][i].step = "keygen" /\ trace[p][i].out = "written")
                          => /\ Val(trace[p][i].key).len = settings.keysize
                             /\ trace[p][i].text = settings.keyfile
                             /\ adds = {i + 1}
                             /\ trace[p][i + 1].key = trace[p][i].key
                             /\ trace[p][i + 1].text = settings.device
                 /\ Exited(p, "luksAddKey", "zero") => result[p] = Returned(0)

----------------------------------------------------------------------------
(* What a run came to, told from its steps alone.                          *)

LastStep(p) == trace[p][Len(trace[p])]

\* the last step of the action was taken and succeeded
ActionSucceeded(p) ==
    /\ Len(trace[p]) > 0
    /\ LastStep(p).out = "zero"
    /\ LastStep(p).step =
          (CASE args[p].action = "start" -> "mask"
             [] args[p].action = "stop" -> "unmask"
             [] args[p].action = "clear-luks" -> "luksRemoveKey"
             [] args[p].action = "unlock" -> "unmask"
             [] args[p].action = "reboot" -> "reboot"
             [] OTHER -> "")

\* the invalid configuration the run met: LUKS settings that raise
\* ConfigurationError, read by clear-luks or by the LUKS step
MetInvalidConfig(p) ==
    /\ Malformed
    /\ args[p].action = "clear-luks" \/ PastLuksSettings(p)

\* UserAbort was raised: the prompt was closed or interrupted, or the
\* operator interrupted the key registration
UserAborted(p) == PromptAborted(p) \/ Exited(p, "luksAddKey", "interrupt")

(* C9.  The claim as written, for the runs in which main returns: the exit *)
(* code is 0 exactly when the action succeeded, 2 exactly when the         *)
(* operator aborted the prompt or the configuration is invalid, and 1      *)
(* for every other failure.                                                *)

C9_ExitCodesAsSpecified ==
    \A p \in Procs :
       (Done(p) /\ result[p].state = "returned")
          => /\ result[p].code = 0 <=> ActionSucceeded(p)
             /\ result[p].code = 2 <=> (PromptAborted(p) \/ MetInvalidConfig(p))
             /\ result[p].code \in {0, 1, 2}

(* C9, amended.  A run ends with exit code 0 exactly when the action       *)
(* succeeded and with exit code 2 exactly when UserAbort was raised (the   *)
(* prompt was closed or interrupted, or the key registration was           *)
(* interrupted); every other run in which main returns ends with exit      *)
(* code 1, malformed LUKS settings and a wrong hostname answer included.   *)
(* Abort and Fail of the challenge never end with the same code.           *)

C9_ExitCodes ==
    \A p \in Procs :
       Done(p)
          => /\ result[p] = Returned(0) <=> ActionSucceeded(p)
             /\ result[p] = Returned(2) <=> UserAborted(p)
             /\ result[p].state = "returned" => result[p].code \in {0, 1, 2}
             /\ (IsReboot(p) /\ MetInvalidConfig(p)) => result[p] = Returned(1)
             /\ WrongAnswer(p) => result[p] = Returned(1)

C9_Witness ==
    \E p \in Procs :
       /\ Done(p) /\ IsReboot(p) /\ MetInvalidConfig(p)
       /\ RightAnswer(p)
       /\ result[p] = Returned(1)

----------------------------------------------------------------------------
(* C10.  Error containment: in a run of start, stop, reboot, unlock or     *)
(* clear-luks none of ConfigurationError, LUKSNotConfigured,               *)
(* ChallengeFailed, UserAbort and CalledProcessError leaves main: the run  *)
(* ends by returning an exit code.                                         *)

GuardedActions == {"start", "stop", "reboot", "unlock", "clear-luks"}

ErrorClasses ==
    {"ConfigurationError", "LUKSNotConfigured", "ChallengeFailed", "UserAbort",
     "CalledProcessError"}

C10_ErrorsContained ==
    \A p \in Procs :
       (Done(p) /\ args[p].action \in GuardedActions)
          => result[p].exc \notin ErrorClasses

----------------------------------------------------------------------------
(* C11.  Round trip: on an unchanged configuration, when a Stop run        *)
(* succeeds after a Start run succeeded, the unmask command of Stop names  *)
(* exactly the units the mask command of Start named, and none of them is  *)
(* masked any more.                                                        *)

IsStop(p) == args[p].action = "stop"

C11_StartStopRoundTrip ==
    \A p \in Procs :
       (Done(p) /\ IsStop(p) /\ Has(started))
          => /\ Len(trace[p]) = 1
             /\ LastStep(p).step = "unmask"
             /\ LastStep(p).units = Val(started)
             /\ Val(started) = get_units(CONFIG)
             /\ result[p] = Returned(0) => masked \cap Val(started) = {}

C11_Witness ==
    \E p \in Procs :
       /\ Done(p) /\ IsStop(p) /\ result[p] = Returned(0)
       /\ Has(started)
       /\ Cardinality(Val(started)) = 2
       /\ masked = {}

----------------------------------------------------------------------------
(* C12.  The claim as written: in a Reboot run that reaches the LUKS step  *)
(* with a LUKS section that lacks the device, lacks the key file or gives  *)
(* a key size that is not a positive integer, the step fails with the      *)
(* ConfigurationError logged, is not passed over as "not configured", and  *)
(* by then no key file was opened or written and no cryptsetup command     *)
(* ran; with the key size left out the settings carry 2048.                *)

\* the key size of the file is given and is no integer above zero
KeysizeNotPositive ==
    /\ Has(CONFIG.luks)
    /\ Has(Val(CONFIG.luks).keysize)
    /\ LET size == ParseInt(Val(Val(CONFIG.luks).keysize))
       IN  ~Has(size) \/ Val(size) <= 0

PresentButMalformed ==
    /\ Has(CONFIG.luks)
    /\ \/ ~Has(Val(CONFIG.luks).device)
       \/ ~Has(Val(CONFIG.luks).keyfile)
       \/ KeysizeNotPositive

KeyfileOpened(p) == pc[p] = "write_key" \/ Exited(p, "keygen", "written")
                       \/ Exited(p, "keygen", "ValueError")

CryptsetupInvoked(p) == Invoked(p, "luksAddKey") \/ Invoked(p, "luksRemoveKey")

C12_MalformedLuksFailsBeforeAnyEffect ==
    /\ \A p \in Procs :
          (IsReboot(p) /\ PastLuksSettings(p) /\ PresentButMalformed)
             => /\ FailedWith(p, "LUKS")
                /\ \E i \in DOMAIN log[p] :
                      log[p][i].level = "error" /\ log[p][i].msg = "%s"
                /\ ~KeyfileOpened(p)
                /\ ~CryptsetupInvoked(p)
    /\ (Has(CONFIG.luks) /\ Has(Val(CONFIG.luks).device)
          /\ Has(Val(CONFIG.luks).keyfile) /\ ~Has(Val(CONFIG.luks).keysize))
          => /\ get_luks_settings(CONFIG).raised = ""
             /\ get_luks_settings(CONFIG).keysize = 2048

----------------------------------------------------------------------------
(* C13.  The claim as written: a run whose key-generation step (opening    *)
(* the key file, reading the random bytes, writing them) was interrupted   *)
(* ends as a user abort: "Aborted by user." is logged and main returns 2;  *)
(* no exception leaves main.                                               *)

C13_InterruptedKeygenIsUserAbort ==
    \A p \in Procs :
       Exited(p, "keygen", "interrupt")
          => /\ Done(p)
             /\ result[p] = Returned(2)
             /\ HasLog(p, "error", "Aborted by user.", "")

----------------------------------------------------------------------------
(* C14.  No retries and no rollback: in every run each external command    *)
(* (mask, unmask, luksAddKey, luksRemoveKey, reboot) is invoked at most    *)
(* once, and the effect of every command of the run that exited 0 is still *)
(* in place at any later point of the run, however the later steps end:    *)
(* masked units stay masked, unmasked units stay unmasked, an enrolled key *)
(* stays enrolled, a removed key stays removed.                            *)

ExternalCommands == {"mask", "unmask", "luksAddKey", "luksRemoveKey", "reboot"}

InvokedAtMostOnce(p) ==
    \A i, j \in DOMAIN trace[p] :
       (trace[p][i].step \in ExternalCommands /\ trace[p][i].step = trace[p][j].step)
          => i = j

EffectInPlace(ev) ==
    CASE ev.step = "mask"          -> ev.units \subseteq masked
      [] ev.step = "unmask"        -> ev.units \cap masked = {}
      [] ev.step = "luksAddKey"    -> ev.key \subseteq slots
      [] ev.step = "luksRemoveKey" -> ev.key \cap slots = {}
      [] OTHER                     -> TRUE

C14_NoRetryNoRollback ==
    \A p \in Procs :
       /\ InvokedAtMostOnce(p)
       /\ \A i \in DOMAIN trace[p] :
             trace[p][i].out = "zero" => EffectInPlace(trace[p][i])

\* the reboot command failed after the key was enrolled and targets that
\* an earlier start had masked were unmasked
C14_Witness ==
    \E p \in Procs :
       /\ Done(p) /\ IsReboot(p) /\ result[p] = Returned(1)
       /\ Exited(p, "luksAddKey", "zero")
       /\ Exited(p, "unmask", "zero")
       /\ Exited(p, "reboot", "nonzero")
       /\ Has(started) /\ "reboot.target" \in Val(started)
       /\ "reboot.target" \notin masked
       /\ slots # {}

----------------------------------------------------------------------------
(* C15.  The claim as written: every mask or unmask command of a Start or  *)
(* Stop run names at least one unit, whatever the configuration; without a *)
(* units key it names the seven built-in targets.                          *)

IsStart(p) == args[p].action = "start"

\* the mask and unmask commands of the start and stop runs
StartStopCommands(p) ==
    IF IsStart(p) \/ IsStop(p)
    THEN {trace[p][i] : i \in {j \in DOMAIN trace[p] : trace[p][j].step \in {"mask", "unmask"}}}
    ELSE {}

C15_UnitListNeverEmpty ==
    \A p \in Procs : \A ev \in StartStopCommands(p) :
       /\ ev.units # {}
       /\ ~Has(CONFIG.units) => (ev.units = DEFAULT_UNITS /\ Cardinality(ev.units) = 7)

(* C15, amended.  Every mask or unmask command of a Start or Stop run      *)
(* names exactly the words of the configured units value, and the seven    *)
(* built-in targets when there is no units key; the list is empty exactly  *)
(* when the units key is present and holds no word.                        *)

ConfiguredWords ==
    {Val(CONFIG.units)[i] : i \in {j \in DOMAIN Val(CONFIG.units) : Val(CONFIG.units)[j] # Blank}}

C15_UnitListAsConfigured ==
    \A p \in Procs : \A ev \in StartStopCommands(p) :
       /\ ~Has(CONFIG.units) => (ev.units = DEFAULT_UNITS /\ Cardinality(ev.units) = 7)
       /\ Has(CONFIG.units) => ev.units = ConfiguredWords
       /\ ev.units = {} <=> (Has(CONFIG.units) /\ ConfiguredWords = {})

\* a start on "units =" has issued a mask command that names no unit
C15_Witness ==
    \E p \in Procs :
       /\ Done(p) /\ IsStart(p)
       /\ CONFIG.units = Some(<<>>)
       /\ \E ev \in StartStopCommands(p) : ev.step = "mask" /\ ev.units = {}

----------------------------------------------------------------------------
(* C16.  Key file race.  An invocation that runs alone hands to luksAddKey *)
(* exactly the bytes it generated and wrote in this run.  (With a second   *)
(* invocation on the same key file this fails: the witness is a state in   *)
(* which the registration tool of one invocation got bytes that this       *)
(* invocation never generated.)                                            *)

\* the key material the registration of event i read is the one this run wrote
RegistersOwnKey(p, i) ==
    \E j \in DOMAIN trace[p] :
       /\ j < i
       /\ trace[p][j].step = "keygen"
       /\ trace[p][j].out = "written"
       /\ trace[p][j].key = trace[p][i].key

Registrations(p) == {i \in DOMAIN trace[p] : trace[p][i].step = "luksAddKey"}

C16_AloneRegistersOwnKey ==
    \A p \in Procs :
       Procs = {p} => \A i \in Registrations(p) : RegistersOwnKey(p, i)

\* side by side: a registration that exited 0 enrolled foreign key material
C16_Witness ==
    \E p \in Procs : \E i \in Registrations(p) :
       /\ Cardinality(Procs) = 2
       /\ trace[p][i].out = "zero"
       /\ ~RegistersOwnKey(p, i)
       /\ trace[p][i].key \subseteq slots

----------------------------------------------------------------------------
(* C17.  The claim as written: between runs, every key enrolled on the     *)
(* device by a provision is the current content of the key file, and once  *)
(* a clear-luks run has returned 0 no such key is enrolled any more.       *)

Quiescent == \A p \in Procs : pc[p] \in {"idle", "done"}

IsClearLuks(p) == args[p].action = "clear-luks"

C17_EphemeralKeysStayRemovable ==
    Quiescent =>
       /\ slots \subseteq keyfile
       /\ \A p \in Procs :
             (IsClearLuks(p) /\ result[p] = Returned(0)) => slots = {}

----------------------------------------------------------------------------
(* C18.  When the hostname challenge of a run ends in a wrong answer or in *)
(* an abort, the run is over with the prompt as its only step: no key was  *)
(* generated and no cryptsetup command ran; and no step of a run up to and *)
(* including the challenge changes the key file or the enrolled keys, so   *)
(* both are what they were before the run.                                 *)

ChallengeNotPassed(p) == WrongAnswer(p) \/ PromptAborted(p)

BeforeLuksStep(p) == pc[p] \in {"idle", "done", "mollyguard"}

C18_FailedChallengeLeavesLuksUntouched ==
    /\ [](\A p \in Procs :
             ChallengeNotPassed(p)
                => /\ Done(p)
                   /\ Len(trace[p]) = 1
                   /\ NoKeyWritten(p)
                   /\ ~CryptsetupInvoked(p)
                   /\ result[p] \in {Returned(1), Returned(2)})
    /\ [][\A p \in Procs :
             BeforeLuksStep(p) => (keyfile' = keyfile /\ slots' = slots)]_vars

\* a key is on file and enrolled from an earlier run, and this run's
\* challenge was answered wrongly
C18_Witness ==
    \E p \in Procs :
       /\ Done(p) /\ WrongAnswer(p)
       /\ result[p] = Returned(1)
       /\ Has(keyfile) /\ keyfile \subseteq slots
       /\ Val(keyfile).len > 0

====
